---- MODULE Spec2Model ----
(***************************************************************************)
(* A model of hicassembler/Scaffolds.py: the Scaffolds manager, which owns *)
(* a Hi-C contact matrix (self.hic) and a path graph (self.contig_G).      *)
(* Bins and graph nodes are numbered from 0, as in the source; paths and   *)
(* lists are TLA+ sequences.  The code is Python 2 (integer division,      *)
(* list-comprehension variables that leak into the enclosing scope).       *)
(***************************************************************************)
EXTENDS Integers, Sequences, FiniteSets, TLC

VARIABLES
    cut_intervals,  \* self.hic.cut_intervals: the ordered bin list
    matrix,         \* self.hic.matrix: contact counts, keyed by <<row, col>>
    contig_G,       \* self.contig_G: [node: attributes per node, edge: set of <<u, v>>]
    pc,             \* "idle", or "nn" inside the loop of get_nearest_neighbors
    nn,             \* the locals of get_nearest_neighbors while pc = "nn"
    last            \* the last call: its name, argument, outcome and what it worked on

vars == <<cut_intervals, matrix, contig_G, pc, nn, last>>

\* ------------------------------------------------------------------ bounds
MaxBins == 4
MaxContacts == 2
MaxMinLength == 1
MaxTarget == 2
\* how many merges a bin may descend from (each merge halves its coverage again)
MaxMerges == 2
MaxFlankBins == 5
MaxFlankTarget == 5
MaxDepth == 3
MaxN50Min == 2

\* get_flanks(path, target_length, 100): the recursion cap merge_to_size passes
MergeDepth == 100

Labels == {"a", "b"}

\* the bin lengths the read-only calls are tried on
BinLens == {1, 2}

\* ------------------------------------------------------------ list helpers
Range(s) == {s[i] : i \in DOMAIN s}

Reverse(s) == [i \in 1..Len(s) |-> s[Len(s) + 1 - i]]

RECURSIVE Flatten(_)
Flatten(ss) == IF ss = <<>> THEN <<>> ELSE Head(ss) \o Flatten(Tail(ss))

RECURSIVE SumSeq(_)
SumSeq(s) == IF s = <<>> THEN 0 ELSE Head(s) + SumSeq(Tail(s))

\* s[lo:hi] of Python, 0-based, hi exclusive
Slice(s, lo, hi) == [i \in 1..(hi - lo) |-> s[lo + i]]

Indices(n) == 0..(n - 1)

\* --------------------------------------------------------------- PathGraph
\* hicassembler/PathGraph.py is not part of the sources at hand; these
\* definitions follow the interface the specification gives for it.
EmptyGraph == [node |-> <<>>, edge |-> {}]

NodesOf(G) == Indices(Len(G.node))

\* contig_G.node[x]: the attribute bag of node x
NodeAttr(G, x) == G.node[x + 1]

add_node(G, idx, attr) ==
    [G EXCEPT !.node = IF idx + 1 \in DOMAIN @ THEN [@ EXCEPT ![idx + 1] = attr]
                                                ELSE Append(@, attr)]

add_path(G, p) ==
    [G EXCEPT !.edge = @ \cup {<<p[i], p[i + 1]>> : i \in 1..(Len(p) - 1)}]

successors(G, n) == {v \in NodesOf(G) : <<n, v>> \in G.edge}

predecessors(G, n) == {u \in NodesOf(G) : <<u, n>> \in G.edge}

degree(G, n) == Cardinality(successors(G, n)) + Cardinality(predecessors(G, n))

graph_has_edge(G, u, v) == <<u, v>> \in G.edge

RECURSIVE PathHead(_, _, _)
PathHead(G, v, fuel) ==
    IF fuel = 0 \/ predecessors(G, v) = {} THEN v
    ELSE PathHead(G, CHOOSE u \in predecessors(G, v) : TRUE, fuel - 1)

RECURSIVE PathChain(_, _, _)
PathChain(G, v, fuel) ==
    IF fuel = 0 \/ successors(G, v) = {} THEN <<v>>
    ELSE <<v>> \o PathChain(G, CHOOSE w \in successors(G, v) : TRUE, fuel - 1)

\* contig_G[v]: the full path that holds v, from its first node to its last
PathOf(G, v) == PathChain(G, PathHead(G, v, Len(G.node)), Len(G.node) - 1)

ReversePath(G, p) ==
    [G EXCEPT !.edge = (@ \ {<<p[i], p[i + 1]>> : i \in 1..(Len(p) - 1)})
                        \cup {<<p[i + 1], p[i]>> : i \in 1..(Len(p) - 1)}]

\* an add_edge that refuses a duplicate and nothing else
InvalidEdge_duplicate(G, u, v) ==
    graph_has_edge(G, u, v) \/ graph_has_edge(G, v, u)

\* what PathGraph.add_edge refuses: a duplicate, a node past degree 2, a cycle
InvalidEdge(G, u, v) ==
    \/ graph_has_edge(G, u, v) \/ graph_has_edge(G, v, u)
    \/ degree(G, u) >= 2 \/ degree(G, v) >= 2
    \/ v \in Range(PathOf(G, u))

\* PathGraph.add_edge on an edge it accepts: u becomes the end of its path
\* and v the start of its own, and the two paths become one
add_edge(G, u, v) ==
    LET G1 == IF successors(G, u) # {} THEN ReversePath(G, PathOf(G, u)) ELSE G
        G2 == IF predecessors(G1, v) # {} THEN ReversePath(G1, PathOf(G1, v)) ELSE G1
    IN  [G2 EXCEPT !.edge = @ \cup {<<u, v>>}]

\* ------------------------------------------------------- _init_path_graph
Attr(interval) ==
    [name |-> interval.name, start |-> interval.start, end |-> interval.end,
     coverage |-> interval.coverage, length |-> interval.end - interval.start]

\* one iteration of the loop over enumerate(self.hic.cut_intervals);
\* st = [G, contig_path, prev_label]
InitLoopBody(st, idx, interval) ==
    LET G1 == add_node(st.G, idx, Attr(interval))
        changed == st.prev_label # interval.name
        G2 == IF changed /\ Len(st.contig_path) > 1 THEN add_path(G1, st.contig_path) ELSE G1
        cp == IF changed THEN <<>> ELSE st.contig_path
    IN  [G |-> G2, contig_path |-> Append(cp, idx), prev_label |-> interval.name]

RECURSIVE InitLoop(_, _, _)
InitLoop(st, intervals, idx) ==
    IF idx >= Len(intervals) THEN st
    ELSE InitLoop(InitLoopBody(st, idx, intervals[idx + 1]), intervals, idx + 1)

\* _init_path_graph without lines 128-129: the last run is never committed
_init_path_graph_unflushed(G, intervals) ==
    InitLoop([G |-> G, contig_path |-> <<>>, prev_label |-> "None"], intervals, 0).G

\* _init_path_graph on graph G (the callers pass a new PathGraph())
_init_path_graph(G, intervals) ==
    LET st == InitLoop([G |-> G, contig_path |-> <<>>, prev_label |-> "None"], intervals, 0)
    IN  IF Len(st.contig_path) > 1 THEN add_path(st.G, st.contig_path) ELSE st.G

\* ---------------------------------------------------------- get_all_paths
RECURSIVE AllPathsLoop(_, _, _, _)
AllPathsLoop(G, v, seen, out) ==
    IF v >= Len(G.node) THEN out
    ELSE AllPathsLoop(G, v + 1, seen \cup Range(PathOf(G, v)),
                      IF v \notin seen THEN Append(out, PathOf(G, v)) ELSE out)

\* get_all_paths without the test "if v not in seen": one path per node
get_all_paths_unseen(G) == [i \in 1..Len(G.node) |-> PathOf(G, i - 1)]

get_all_paths(G) == AllPathsLoop(G, 0, {}, <<>>)

PathLength(G, path) == SumSeq([i \in 1..Len(path) |-> NodeAttr(G, path[i]).length])

\* get_paths_length
get_paths_length(G) ==
    LET ps == get_all_paths(G) IN [i \in 1..Len(ps) |-> PathLength(G, ps[i])]

\* -------------------------------------------------------------- get_flanks
\* sum(path_length[x] for n in flank), line 424: the summand is path_length[x],
\* not path_length[n]; x is the variable of the list comprehension of line
\* 405, which Python 2 leaves bound to the last element of path
FlankSum(G, flank, x) == SumSeq([i \in 1..Len(flank) |-> NodeAttr(G, x).length])

\* the loop of _get_path_flank; tolerance_min = 0.75 * flank_length and
\* tolerance_max = 1.25 * flank_length, compared here after multiplying by 4
RECURSIVE FlankLoop(_, _, _, _, _)
FlankLoop(G, _path, flank, x, flank_length) ==
    IF Len(flank) = Len(_path) THEN flank
    ELSE LET flank_sum == FlankSum(G, flank, x)
         IN  IF 4 * flank_sum > 5 * flank_length THEN flank
             ELSE IF 3 * flank_length <= 4 * flank_sum /\ 4 * flank_sum <= 5 * flank_length
                  THEN flank
                  ELSE FlankLoop(G, _path, Append(flank, _path[Len(flank) + 1]), x, flank_length)

_get_path_flank(G, _path, x, flank_length) == FlankLoop(G, _path, <<>>, x, flank_length)

\* the split with the middle bin of an odd path on the left
Halves_ceil(path) ==
    LET path_half == (Len(path) + 1) \div 2
    IN  <<Slice(path, 0, path_half), Slice(path, path_half, Len(path))>>

\* path[0:len(path)/2] and path[len(path)/2:]
Halves(path) ==
    LET path_half == Len(path) \div 2
    IN  <<Slice(path, 0, path_half), Slice(path, path_half, Len(path))>>

\* the two flanks without lines 453-456: an index met from both ends stays in both
LeftRight_overlap(G, path, flank_length) ==
    LET x == path[Len(path)]
        left == _get_path_flank(G, path, x, flank_length)
        right == Reverse(_get_path_flank(G, Reverse(path), x, flank_length))
    IN  IF Len(left) = 0 \/ Len(right) = 0 THEN Halves(path) ELSE <<left, right>>

\* lines 449-461: the two flanks of a path that is long enough
LeftRight(G, path, flank_length) ==
    LET x == path[Len(path)]
        left0 == _get_path_flank(G, path, x, flank_length)
        right == Reverse(_get_path_flank(G, Reverse(path), x, flank_length))
        over == Range(left0) \cap Range(right)
        left == IF over # {} THEN SelectSeq(left0, LAMBDA y : y \notin over) ELSE left0
    IN  IF Len(left) = 0 \/ Len(right) = 0 THEN Halves(path) ELSE <<left, right>>

\* get_flanks with line 470 above line 468: the right flank before the interior
RECURSIVE get_flanks_rightfirst(_, _, _, _, _)
get_flanks_rightfirst(G, path, flank_length, recursive_repetitions, counter0) ==
    LET counter == counter0 + 1
    IN  IF counter > recursive_repetitions THEN <<>>
        ELSE IF Len(path) = 1
        THEN IF 4 * NodeAttr(G, path[1]).length > 3 * flank_length \/ counter = 1
             THEN <<path>> ELSE <<>>
        ELSE IF 2 * PathLength(G, path) < 3 * flank_length
        THEN IF counter = 1 THEN Halves(path) ELSE <<path>>
        ELSE LET lr == LeftRight(G, path, flank_length)
                 used == Range(lr[1]) \cup Range(lr[2])
                 inside == SelectSeq(path, LAMBDA y : y \notin used)
                 interior == IF Len(inside) > 0
                             THEN get_flanks_rightfirst(G, inside, flank_length,
                                                        recursive_repetitions, counter)
                             ELSE <<>>
             IN  (IF Len(lr[1]) > 0 THEN <<lr[1]>> ELSE <<>>)
                 \o (IF Len(lr[2]) > 0 THEN <<lr[2]>> ELSE <<>>)
                 \o interior

\* lines 399-479
RECURSIVE get_flanks(_, _, _, _, _)
get_flanks(G, path, flank_length, recursive_repetitions, counter0) ==
    LET counter == counter0 + 1
    IN  IF counter > recursive_repetitions THEN <<>>
        ELSE IF Len(path) = 1
        THEN IF 4 * NodeAttr(G, path[1]).length > 3 * flank_length \/ counter = 1
             THEN <<path>> ELSE <<>>
        ELSE IF 2 * PathLength(G, path) < 3 * flank_length
        THEN IF counter = 1 THEN Halves(path) ELSE <<path>>
        ELSE LET lr == LeftRight(G, path, flank_length)
                 left_flank == lr[1]
                 right_flank == lr[2]
                 used == Range(left_flank) \cup Range(right_flank)
                 inside == SelectSeq(path, LAMBDA y : y \notin used)
                 interior == IF Len(inside) > 0
                             THEN get_flanks(G, inside, flank_length,
                                             recursive_repetitions, counter)
                             ELSE <<>>
             IN  (IF Len(left_flank) > 0 THEN <<left_flank>> ELSE <<>>)
                 \o interior
                 \o (IF Len(right_flank) > 0 THEN <<right_flank>> ELSE <<>>)

\* ------------------------------------------------------------- compute_N50
\* the loop with the test of line 241 as "cumsum[i] > half_length"
RECURSIVE N50Loop_strict(_, _, _, _)
N50Loop_strict(length, cumsum, total, i) ==
    IF 2 * cumsum[i] > total \/ i = Len(length) THEN i
    ELSE N50Loop_strict(length, cumsum, total, i + 1)

\* the for loop of lines 240-242 over i = 0 .. len(length)-1 (i is 1-based here)
RECURSIVE N50Loop(_, _, _, _)
N50Loop(length, cumsum, total, i) ==
    IF 2 * cumsum[i] >= total \/ i = Len(length) THEN i
    ELSE N50Loop(length, cumsum, total, i + 1)

N50Of(lens, min_length) ==
    LET sorted == SortSeq(lens, LAMBDA a, b : a < b)
    IN  IF Len(sorted) = 0 THEN [kind |-> "error", value |-> 0]
        ELSE LET length == SelectSeq(sorted, LAMBDA l : l > min_length)
             IN  IF Len(length) = 0 THEN [kind |-> "error", value |-> 0]
                 ELSE LET cumsum == [i \in 1..Len(length) |-> SumSeq(SubSeq(length, 1, i))]
                          i == N50Loop(length, cumsum, cumsum[Len(length)], 1)
                      IN  [kind |-> "value", value |-> length[i]]

compute_N50(G, min_length) == N50Of(get_paths_length(G), min_length)

\* ------------------------------------------------------------ the last call
NoNN == [G |-> {}, todo |-> {}, seen |-> {}, flanks |-> {}, singletons |-> {}]

Call(op, arg, outcome, aux) == [op |-> op, arg |-> arg, outcome |-> outcome, aux |-> aux]

\* ------------------------------------------------------ remove_bins_by_size
\* lines 184-188: the indices of the paths longer than min_length, in path order
RECURSIVE ToKeepLoop(_, _, _, _)
ToKeepLoop(G, paths, min_length, to_keep) ==
    IF paths = <<>> THEN to_keep
    ELSE ToKeepLoop(G, Tail(paths), min_length,
                    IF PathLength(G, Head(paths)) > min_length
                    THEN to_keep \o Head(paths) ELSE to_keep)

\* the comparison of line 187 as "length >= min_length"
ToKeep_atleast(G, min_length) == ToKeepLoop(G, get_all_paths(G), min_length - 1, <<>>)

ToKeep(G, min_length) == ToKeepLoop(G, get_all_paths(G), min_length, <<>>)

\* self.hic.matrix[to_keep, :][:, to_keep]
SubMatrix(m, to_keep) ==
    [ij \in Indices(Len(to_keep)) \X Indices(Len(to_keep)) |->
        m[<<to_keep[ij[1] + 1], to_keep[ij[2] + 1]>>]]

SubIntervals(intervals, to_keep) ==
    [k \in 1..Len(to_keep) |-> intervals[to_keep[k] + 1]]

\* a rebuild that carries over the old edges between nodes that still exist
RebuildGraph_carry(old_G, intervals) ==
    LET G == _init_path_graph(EmptyGraph, intervals)
    IN  [G EXCEPT !.edge = @ \cup {e \in old_G.edge : e[1] \in NodesOf(G) /\ e[2] \in NodesOf(G)}]

\* lines 194-195 and 336-337: self.contig_G = PathGraph(); self._init_path_graph()
RebuildGraph(old_G, intervals) == _init_path_graph(EmptyGraph, intervals)

\* remove_bins_by_size with line 194 moved above the test of line 190
remove_bins_by_size_eager(min_length) ==
    /\ pc = "idle"
    /\ LET to_keep == ToKeep(contig_G, min_length)
       IN  IF Len(to_keep) > 0
           THEN /\ matrix' = SubMatrix(matrix, to_keep)
                /\ cut_intervals' = SubIntervals(cut_intervals, to_keep)
                /\ contig_G' = RebuildGraph(contig_G, SubIntervals(cut_intervals, to_keep))
                /\ last' = Call("remove_bins_by_size", min_length, "ok",
                                [to_keep |-> to_keep, n |-> Len(cut_intervals)])
           ELSE /\ UNCHANGED <<matrix, cut_intervals>>
                /\ contig_G' = EmptyGraph
                /\ last' = Call("remove_bins_by_size", min_length, "noop",
                                [to_keep |-> to_keep, n |-> Len(cut_intervals)])
    /\ UNCHANGED <<pc, nn>>

remove_bins_by_size(min_length) ==
    /\ pc = "idle"
    /\ LET to_keep == ToKeep(contig_G, min_length)
       IN  IF Len(to_keep) > 0
           THEN /\ matrix' = SubMatrix(matrix, to_keep)
                /\ cut_intervals' = SubIntervals(cut_intervals, to_keep)
                /\ contig_G' = RebuildGraph(contig_G, SubIntervals(cut_intervals, to_keep))
                /\ last' = Call("remove_bins_by_size", min_length, "ok",
                                [to_keep |-> to_keep, n |-> Len(cut_intervals)])
           ELSE /\ UNCHANGED <<matrix, cut_intervals, contig_G>>
                /\ last' = Call("remove_bins_by_size", min_length, "noop",
                                [to_keep |-> to_keep, n |-> Len(cut_intervals)])
    /\ UNCHANGED <<pc, nn>>

\* ------------------------------------------------------------ merge_to_size
\* lines 293-297: the flanks of every path, in path order, as one flat list
PathsFlatten(G, target_length) ==
    LET ps == get_all_paths(G)
    IN  Flatten([i \in 1..Len(ps) |-> get_flanks(G, ps[i], target_length, MergeDepth, 0)])

\* float(first coverage + last end) / 2, kept as <<numerator, denominator>>
MergedCoverage(cov, end) == <<cov[1] + end * cov[2], 2 * cov[2]>>

\* the new bin with its end taken from the first member of the group
NewInterval_firstend(G, sub_path) ==
    LET first_node == sub_path[1]
    IN  [name |-> NodeAttr(G, first_node).name,
         start |-> NodeAttr(G, first_node).start,
         end |-> NodeAttr(G, first_node).end,
         coverage |-> MergedCoverage(NodeAttr(G, first_node).coverage,
                                     NodeAttr(G, first_node).end)]

\* lines 305-316: the new bin of one reduce group
NewInterval(G, sub_path) ==
    LET first_node == sub_path[1]
        last_node == sub_path[Len(sub_path)]
    IN  [name |-> NodeAttr(G, first_node).name,
         start |-> NodeAttr(G, first_node).start,
         end |-> NodeAttr(G, last_node).end,
         coverage |-> MergedCoverage(NodeAttr(G, first_node).coverage,
                                     NodeAttr(G, last_node).end)]

NewCutIntervals(G, paths_flatten) ==
    [k \in 1..Len(paths_flatten) |-> NewInterval(G, paths_flatten[k])]

\* assert start < end, line 312
AssertFails(G, paths_flatten) ==
    \E k \in 1..Len(paths_flatten) :
        ~(NewInterval(G, paths_flatten[k]).start < NewInterval(G, paths_flatten[k]).end)

\* hicexplorer's reduce_matrix(matrix, reduce_paths, diagonal=True): cell (i, j)
\* adds up the contacts between the bins of group i and those of group j
RECURSIVE SumOver(_, _)
SumOver(f, S) == IF S = {} THEN 0
                 ELSE LET e == CHOOSE e \in S : TRUE IN f[e] + SumOver(f, S \ {e})

reduce_matrix(m, groups) ==
    [ij \in Indices(Len(groups)) \X Indices(Len(groups)) |->
        LET gi == Range(groups[ij[1] + 1])
            gj == Range(groups[ij[2] + 1])
        IN  IF ij[1] # ij[2] THEN SumOver(m, gi \X gj)
            ELSE SumOver(m, {ab \in gi \X gi : ab[1] <= ab[2]})]

\* hicexplorer's iterativeCorrection rescales the counts by positive factors;
\* the model keeps the counts: only the shape and the zero cells are kept exact
iterativeCorrection(m) == m

\* what merge_to_size does before it touches self: "nothing" (line 299),
\* "malformed" (line 312), "noop" (line 320), or "reduce"
MergeOutcome(G, target_length) ==
    LET paths_flatten == PathsFlatten(G, target_length)
    IN  IF Len(paths_flatten) = 0 THEN "nothing"
        ELSE IF AssertFails(G, paths_flatten) THEN "malformed"
        ELSE IF Len(paths_flatten) < 2 THEN "noop"
        ELSE "reduce"

\* the bins have been through fewer than MaxMerges merges
MayMerge ==
    \A k \in 1..Len(cut_intervals) : cut_intervals[k].coverage[2] < 2 ^ MaxMerges

merge_to_size(target_length) ==
    /\ pc = "idle"
    /\ MayMerge
    /\ LET reduce_paths == PathsFlatten(contig_G, target_length)
           new_cut_intervals == NewCutIntervals(contig_G, reduce_paths)
           outcome == MergeOutcome(contig_G, target_length)
       IN  IF outcome # "reduce"
           THEN /\ UNCHANGED <<matrix, cut_intervals, contig_G>>
                /\ last' = Call("merge_to_size", target_length, outcome, reduce_paths)
           ELSE \* reduce_matrix or iterativeCorrection raises: lines 323, 327
                \/ /\ UNCHANGED <<matrix, cut_intervals, contig_G>>
                   /\ last' = Call("merge_to_size", target_length, "failed", reduce_paths)
                \* lines 332-341; self.hic.save may still raise after the swap
                \/ /\ matrix' = iterativeCorrection(reduce_matrix(matrix, reduce_paths))
                   /\ cut_intervals' = new_cut_intervals
                   /\ contig_G' = RebuildGraph(contig_G, new_cut_intervals)
                   /\ \E saved \in {"ok", "save_failed"} :
                          last' = Call("merge_to_size", target_length, saved, reduce_paths)
    /\ UNCHANGED <<pc, nn>>

\* ---------------------------------------------------- get_nearest_neighbors
ConfidenceScores == {0, 1}

\* lines 565-571
Singletons(G) == {p[1] : p \in {q \in Range(get_all_paths(G)) : Len(q) = 1}}

Flanks(G) ==
    UNION {{p[1], p[Len(p)]} : p \in {q \in Range(get_all_paths(G)) : Len(q) > 1}}

\* lines 559-563 and 575-581: the edges of the auxiliary graph, each <<row, col>>
\* a cell of the strict upper triangle above the threshold, between eligible nodes
AuxEdges(m, G, confidence_score) ==
    LET nodes == Flanks(G) \cup Singletons(G)
    IN  {rc \in DOMAIN m : /\ rc[1] < rc[2]
                           /\ m[rc] > confidence_score
                           /\ rc[1] \in nodes /\ rc[2] \in nodes}

AuxNodes(E) == {rc[1] : rc \in E} \cup {rc[2] : rc \in E}

\* G[node].keys()
AuxNeighbors(E, node) ==
    {rc[2] : rc \in {e \in E : e[1] = node}} \cup {rc[1] : rc \in {e \in E : e[2] = node}}

NNStart(confidence_score) ==
    /\ pc = "idle"
    /\ LET E == AuxEdges(matrix, contig_G, confidence_score)
       IN  /\ nn' = [G |-> E, todo |-> AuxNodes(E), seen |-> {},
                     flanks |-> Flanks(contig_G), singletons |-> Singletons(contig_G)]
           /\ last' = Call("get_nearest_neighbors", confidence_score, "running",
                           [node |-> -1, kind |-> "start", added |-> {}, refused |-> {}])
    /\ pc' = "nn"
    /\ UNCHANGED <<matrix, cut_intervals, contig_G>>

Step(outcome, node, kind, added, refused) ==
    [last EXCEPT !.outcome = outcome,
                 !.aux = [node |-> node, kind |-> kind, added |-> added, refused |-> refused]]

\* lines 585-590: a path end with one neighbour; a refused edge is passed over
NNFlank(node) ==
    LET nb == CHOOSE k \in AuxNeighbors(nn.G, node) : TRUE
        bad == InvalidEdge(contig_G, node, nb)
    IN  /\ contig_G' = IF bad THEN contig_G ELSE add_edge(contig_G, node, nb)
        /\ nn' = [nn EXCEPT !.todo = @ \ {node}, !.seen = @ \cup {node, nb}]
        /\ last' = Step("running", node, "flank",
                        IF bad THEN {} ELSE {<<node, nb>>},
                        IF bad THEN {<<node, nb>>} ELSE {})
        /\ pc' = "nn"

\* lines 591-595: a singleton with two neighbours; no handler around add_edge,
\* so a refused edge ends the call with the exception
NNSingleton(node) ==
    \E k0 \in AuxNeighbors(nn.G, node) :
        LET k1 == CHOOSE k \in AuxNeighbors(nn.G, node) \ {k0} : TRUE
            G1 == add_edge(contig_G, node, k0)
        IN  IF InvalidEdge(contig_G, node, k0)
            THEN /\ contig_G' = contig_G
                 /\ nn' = NoNN
                 /\ last' = Step("error", node, "singleton", {}, {<<node, k0>>})
                 /\ pc' = "idle"
            ELSE IF InvalidEdge(G1, node, k1)
            THEN /\ contig_G' = G1
                 /\ nn' = NoNN
                 /\ last' = Step("error", node, "singleton", {<<node, k0>>}, {<<node, k1>>})
                 /\ pc' = "idle"
            ELSE /\ contig_G' = add_edge(G1, node, k1)
                 /\ nn' = [nn EXCEPT !.todo = @ \ {node}, !.seen = @ \cup {node, k0, k1}]
                 /\ last' = Step("running", node, "singleton",
                                 {<<node, k0>>, <<node, k1>>}, {})
                 /\ pc' = "nn"

\* a hub that is given the edge to one of its neighbours all the same
NNHub_forced(node) ==
    LET nb == CHOOSE k \in AuxNeighbors(nn.G, node) : TRUE
        bad == InvalidEdge(contig_G, node, nb)
    IN  /\ contig_G' = IF bad THEN contig_G ELSE add_edge(contig_G, node, nb)
        /\ nn' = [nn EXCEPT !.todo = @ \ {node}]
        /\ last' = Step("running", node, "hub", IF bad THEN {} ELSE {<<node, nb>>}, {})
        /\ pc' = "nn"

\* lines 597-598
NNHub(node) ==
    /\ contig_G' = contig_G
    /\ nn' = [nn EXCEPT !.todo = @ \ {node}]
    /\ last' = Step("running", node, "hub", {}, {})
    /\ pc' = "nn"

\* one iteration of "for node in G", in whatever order the dictionary gives
NNStep ==
    /\ pc = "nn"
    /\ \E node \in nn.todo :
         LET deg == Cardinality(AuxNeighbors(nn.G, node))
         IN  IF deg = 1 /\ node \in nn.flanks /\ node \notin nn.seen THEN NNFlank(node)
             ELSE IF deg = 2 /\ node \in nn.singletons /\ node \notin nn.seen
             THEN NNSingleton(node)
             ELSE NNHub(node)
    /\ UNCHANGED <<matrix, cut_intervals>>

\* the loop is exhausted and the call returns
NNEnd ==
    /\ pc = "nn"
    /\ nn.todo = {}
    /\ pc' = "idle"
    /\ nn' = NoNN
    /\ last' = [last EXCEPT !.outcome = "done"]
    /\ UNCHANGED <<matrix, cut_intervals, contig_G>>

\* -------------------------------------------------------------- statistics
ComputeN50(min_length) ==
    /\ pc = "idle"
    /\ last' = Call("compute_N50", min_length, compute_N50(contig_G, min_length), <<>>)
    /\ UNCHANGED <<matrix, cut_intervals, contig_G, pc, nn>>

\* --------------------------------------------------------------- check_edge
\* has_edge, line 758
has_edge(G, u, v) == graph_has_edge(G, u, v) \/ graph_has_edge(G, v, u)

\* check_edge with the loop of line 768 over [u] alone
check_edge_first(G, u, v) ==
    IF has_edge(G, u, v) THEN "exists"
    ELSE IF degree(G, u) = 2 THEN "not_flank"
    ELSE IF degree(G, u) = 1 /\ degree(G, v) = 1 /\ v \in Range(PathOf(G, u)) THEN "loop"
    ELSE "ok"

\* lines 761-781: "ok", or the reason of the exception raised
check_edge(G, u, v) ==
    IF has_edge(G, u, v) THEN "exists"
    ELSE IF degree(G, u) = 2 \/ degree(G, v) = 2 THEN "not_flank"
    ELSE IF degree(G, u) = 1 /\ degree(G, v) = 1 /\ v \in Range(PathOf(G, u)) THEN "loop"
    ELSE "ok"

\* ------------------------------------------------------------- construction
\* a bin list: the bins of one label follow each other in coordinate order
StartOf(names, lens, i) ==
    SumSeq([j \in 1..(i - 1) |-> IF names[j] = names[i] THEN lens[j] ELSE 0])

BinList(names, lens) ==
    [i \in 1..Len(names) |->
        [name |-> names[i], start |-> StartOf(names, lens, i),
         end |-> StartOf(names, lens, i) + lens[i], coverage |-> <<1, 1>>]]

Pairs(n) == {rc \in Indices(n) \X Indices(n) : rc[1] < rc[2]}

\* a symmetric matrix with a count of 1 in the cells of C and their mirrors
ContactMatrix(n, C) ==
    [ij \in Indices(n) \X Indices(n) |->
        IF <<ij[1], ij[2]>> \in C \/ <<ij[2], ij[1]>> \in C THEN 1 ELSE 0]

\* Scaffolds.__init__, lines 68-75
Construct(intervals, m) ==
    /\ cut_intervals = intervals
    /\ matrix = m
    /\ contig_G = _init_path_graph(EmptyGraph, intervals)
    /\ pc = "idle"
    /\ nn = NoNN
    /\ last = Call("__init__", 0, "ok", <<>>)

Init ==
    \E n \in 1..MaxBins :
      \E names \in {f \in [1..n -> Labels] : f[1] = "a"} :
        \E C \in {D \in SUBSET Pairs(n) : Cardinality(D) <= MaxContacts} :
            Construct(BinList(names, [i \in 1..n |-> 1]), ContactMatrix(n, C))

Next ==
    \/ \E min_length \in 0..MaxMinLength : remove_bins_by_size(min_length)
    \/ \E target_length \in 1..MaxTarget : merge_to_size(target_length)
    \/ \E confidence_score \in ConfidenceScores : NNStart(confidence_score)
    \/ NNStep
    \/ NNEnd

Spec == Init /\ [][Next]_vars

\* ------------------------------------------------- the read-only calls alone
\* get_flanks and compute_N50 on a freshly constructed manager whose bins
\* have unequal lengths; neither call changes the manager
GetFlanks(path, flank_length, recursive_repetitions) ==
    /\ pc = "idle"
    /\ last' = Call("get_flanks",
                    [path |-> path, flank_length |-> flank_length,
                     recursive_repetitions |-> recursive_repetitions],
                    "ok",
                    get_flanks(contig_G, path, flank_length, recursive_repetitions, 0))
    /\ UNCHANGED <<matrix, cut_intervals, contig_G, pc, nn>>

InitQuery ==
    \E n \in 1..MaxFlankBins :
      \E names \in {f \in [1..n -> Labels] : f[1] = "a"} :
        \E lens \in [1..n -> BinLens] :
            Construct(BinList(names, lens), ContactMatrix(n, {}))

NextQuery ==
    \/ \E path \in Range(get_all_paths(contig_G)) :
         \E flank_length \in 1..MaxFlankTarget :
           \E recursive_repetitions \in 0..MaxDepth :
               GetFlanks(path, flank_length, recursive_repetitions)
    \/ \E min_length \in 0..MaxN50Min : ComputeN50(min_length)

SpecQuery == InitQuery /\ [][NextQuery]_vars

\* ================================================================= claims
NBins == Len(cut_intervals)

NoRepeat(p) == Cardinality(Range(p)) = Len(p)

Completed(op) == last.op = op /\ last.outcome = "ok"

\* the doctest bin list of get_all_paths, lines 137-138: runs of sizes 3, 2, 1
DocRuns == BinList(<<"c-0", "c-0", "c-0", "c-2", "c-2", "c-3">>, <<1, 1, 1, 1, 1, 1>>)

\* C1: in every reachable state get_all_paths() yields a partition of the bin
\* indices 0..N-1 of the current matrix: every index is in exactly one yielded
\* path, no path lists an index twice, and no path holds anything else.
C1_PathsPartition ==
    LET ps == get_all_paths(contig_G)
    IN  /\ DOMAIN matrix = Indices(NBins) \X Indices(NBins)
        /\ \A v \in Indices(NBins) :
               Cardinality({i \in 1..Len(ps) : v \in Range(ps[i])}) = 1
        /\ \A i \in 1..Len(ps) : NoRepeat(ps[i]) /\ Range(ps[i]) \subseteq Indices(NBins)

\* C1 witness: get_nearest_neighbors has just joined two paths and more than
\* one path is left
C1_Witness ==
    /\ last.op = "get_nearest_neighbors"
    /\ last.aux.added # {}
    /\ Len(get_all_paths(contig_G)) >= 2
    /\ \E i \in 1..Len(get_all_paths(contig_G)) : Len(get_all_paths(contig_G)[i]) >= 3

\* bins i-1 and i (0-based i) carry the same label
SameLabel(intervals, i) == intervals[i].name = intervals[i + 1].name

\* the maximal run of equal labels that starts at 0-based bin lo
RECURSIVE RunEnd(_, _)
RunEnd(intervals, lo) ==
    IF lo + 1 < Len(intervals) /\ SameLabel(intervals, lo + 1)
    THEN RunEnd(intervals, lo + 1) ELSE lo

RunStarts(intervals) ==
    {lo \in Indices(Len(intervals)) : lo = 0 \/ ~SameLabel(intervals, lo)}

\* G is the path graph of the runs of intervals: the edges are the chains
\* i -> i+1 inside a run, and the paths are the runs, by first bin
IsRunGraph(G, intervals) ==
    LET ps == get_all_paths(G)
    IN  /\ G.edge = {<<i - 1, i>> : i \in {j \in 1..(Len(intervals) - 1) : SameLabel(intervals, j)}}
        /\ Len(ps) = Cardinality(RunStarts(intervals))
        /\ \A k \in 1..Len(ps) :
              /\ ps[k][1] \in RunStarts(intervals)
              /\ ps[k] = [i \in 1..(RunEnd(intervals, ps[k][1]) - ps[k][1] + 1) |-> ps[k][1] + i - 1]
              /\ Len(ps[k]) = 1 => degree(G, ps[k][1]) = 0
              /\ k > 1 => ps[k - 1][1] < ps[k][1]

FreshGraph ==
    \/ last.op = "__init__"
    \/ Completed("remove_bins_by_size")
    \/ Completed("merge_to_size")

\* C2: a freshly built path graph has one path per maximal run of bins with
\* the same label, each the chain i -> i+1 of the run's indices in increasing
\* order, a run of one bin being a node without edges, and get_all_paths()
\* lists the paths by first bin; runs of sizes 3, 2, 1 give [0,1,2], [3,4], [5].
C2_RunsBecomePaths ==
    /\ FreshGraph => IsRunGraph(contig_G, cut_intervals)
    /\ get_all_paths(_init_path_graph(EmptyGraph, DocRuns)) = <<<<0, 1, 2>>, <<3, 4>>, <<5>>>>

\* C2 witness: a graph rebuilt by a remove_bins_by_size that dropped bins, with
\* a run of several bins and a run of one
C2_Witness ==
    /\ Completed("remove_bins_by_size")
    /\ Len(last.aux.to_keep) < last.aux.n
    /\ \E p \in Range(get_all_paths(contig_G)) : Len(p) >= 2
    /\ \E p \in Range(get_all_paths(contig_G)) : Len(p) = 1

\* the bins a remove_bins_by_size(min_length) keeps: the members of the paths
\* of G longer than min_length, path after path
Retained(G, min_length) ==
    Flatten(SelectSeq(get_all_paths(G), LAMBDA p : PathLength(G, p) > min_length))

\* node i of G carries the metadata of bin i, and G has no other node
NodesAreBins(G, intervals) ==
    /\ NodesOf(G) = Indices(Len(intervals))
    /\ Len(G.node) = Len(intervals)
    /\ \A i \in 1..Len(intervals) :
          /\ G.node[i].name = intervals[i].name
          /\ G.node[i].start = intervals[i].start
          /\ G.node[i].end = intervals[i].end
          /\ G.node[i].coverage = intervals[i].coverage
          /\ G.node[i].length = intervals[i].end - intervals[i].start

\* the matrix, the bins and the graph after a call that kept the list K
RemovedTo(K) ==
    /\ Len(cut_intervals') = Len(K)
    /\ DOMAIN matrix' = Indices(Len(K)) \X Indices(Len(K))
    /\ \A i, j \in 1..Len(K) : matrix'[<<i - 1, j - 1>>] = matrix[<<K[i], K[j]>>]
    /\ \A k \in 1..Len(K) : cut_intervals'[k] = cut_intervals[K[k] + 1]
    /\ NodesAreBins(contig_G', cut_intervals')
    /\ IsRunGraph(contig_G', cut_intervals')

C6_MergeBuildsOneBinPerGroup ==
    [][(last'.op = "merge_to_size" /\ last'.outcome = "ok") =>
          LET groups == PathsFlatten(contig_G, last'.arg)
          IN  /\ Len(groups) >= 2
              /\ Len(cut_intervals') = Len(groups)
              /\ \A k \in 1..Len(groups) :
                    LET first == cut_intervals[groups[k][1] + 1]
                        final == cut_intervals[groups[k][Len(groups[k])] + 1]
                    IN  /\ cut_intervals'[k].name = first.name
                        /\ cut_intervals'[k].start = first.start
                        /\ cut_intervals'[k].end = final.end
                        /\ cut_intervals'[k].end > cut_intervals'[k].start
              /\ NodesOf(contig_G') = Indices(Len(groups))
              /\ Len(contig_G'.node) = Len(groups)]_vars

\* C6 witness: a completed merge of at least two groups, one of several bins
C6_Witness ==
    /\ Completed("merge_to_size")
    /\ Len(last.aux) >= 2
    /\ \E k \in 1..Len(last.aux) : Len(last.aux[k]) >= 2
    /\ NBins = Len(last.aux)

\* C10: a remove_bins_by_size or merge_to_size that ends as a no-op, on a
\* malformed group or on a failure of reduction or correction leaves the
\* matrix, the bin list and the path graph as they were; one that completes
\* leaves a graph whose nodes are the indices of the new bin list, each with
\* the metadata of its bin.
C10_AllOrNothing ==
    [][last'.op \in {"remove_bins_by_size", "merge_to_size"} =>
          /\ last'.outcome \in {"noop", "nothing", "malformed", "failed"}
                => UNCHANGED <<matrix, cut_intervals, contig_G>>
          /\ last'.outcome = "ok" => NodesAreBins(contig_G', cut_intervals')]_vars

\* C10 witness: a merge_to_size stopped by the assertion on a group, in a state
\* whose graph holds an edge between bins of different labels
C10_Witness ==
    /\ last.op = "merge_to_size"
    /\ last.outcome = "malformed"
    /\ \E e \in contig_G.edge : cut_intervals[e[1] + 1].name # cut_intervals[e[2] + 1].name

\* the nodes joined to a node of S by edges of G, in either direction
RECURSIVE Reach(_, _)
Reach(G, S) ==
    LET T == S \cup {e[2] : e \in {d \in G.edge : d[1] \in S}}
                \cup {e[1] : e \in {d \in G.edge : d[2] \in S}}
    IN  IF T = S THEN S ELSE Reach(G, T)

\* C7: check_edge(u, v) fails when the edge exists in either direction, when u
\* or v has degree 2, and when both have degree 1 and lie in the same path; it
\* passes for a new edge between nodes of degree < 2 of different paths, and
\* with that edge added check_edge(u, v) and check_edge(v, u) both fail.
C7_CheckEdge ==
    \A u, v \in NodesOf(contig_G) :
        LET G == contig_G
            exists == <<u, v>> \in G.edge \/ <<v, u>> \in G.edge
            same == v \in Reach(G, {u})
        IN  /\ exists => check_edge(G, u, v) # "ok"
            /\ (degree(G, u) = 2 \/ degree(G, v) = 2) => check_edge(G, u, v) # "ok"
            /\ (degree(G, u) = 1 /\ degree(G, v) = 1 /\ same) => check_edge(G, u, v) # "ok"
            /\ (~exists /\ degree(G, u) < 2 /\ degree(G, v) < 2 /\ ~same) =>
                  /\ check_edge(G, u, v) = "ok"
                  /\ check_edge(add_edge(G, u, v), u, v) # "ok"
                  /\ check_edge(add_edge(G, u, v), v, u) # "ok"

\* C7 witness: get_nearest_neighbors has just added an edge, which check_edge
\* now refuses as existing, while another pair of nodes passes the check and
\* a third is refused for a node of degree 2
C7_Witness ==
    /\ last.op = "get_nearest_neighbors"
    /\ \E e \in last.aux.added : check_edge(contig_G, e[2], e[1]) = "exists"
    /\ \E u, v \in NodesOf(contig_G) : u # v /\ check_edge(contig_G, u, v) = "ok"
    /\ \E u, v \in NodesOf(contig_G) : check_edge(contig_G, u, v) = "not_flank"

\* the edges of G with both ends in S that touch v, a loop counted twice
InnerDegree(G, S, v) ==
    Cardinality({e \in G.edge : e[1] = v /\ e[2] \in S})
    + Cardinality({e \in G.edge : e[2] = v /\ e[1] \in S})

\* C8: in every reachable state every node of the path graph has at most two
\* incident edges and the graph has no cycle: it is a disjoint union of chains.
C8_SimpleChains ==
    /\ \A e \in contig_G.edge : e[1] \in NodesOf(contig_G) /\ e[2] \in NodesOf(contig_G)
    /\ \A n \in NodesOf(contig_G) : degree(contig_G, n) <= 2
    /\ \A S \in SUBSET NodesOf(contig_G) :
          S # {} => \E v \in S : InnerDegree(contig_G, S, v) < 2

\* C8 witness: get_nearest_neighbors has just been refused an edge, and the
\* graph holds a node of degree 2 joined to a bin of another label
C8_Witness ==
    /\ last.op = "get_nearest_neighbors"
    /\ last.aux.refused # {}
    /\ \E e \in contig_G.edge :
          /\ cut_intervals[e[1] + 1].name # cut_intervals[e[2] + 1].name
          /\ degree(contig_G, e[1]) = 2

\* C9 as stated: get_nearest_neighbors passes over every refused edge, so the
\* call never ends with the exception of a refused edge.
C9_NeverAborts ==
    ~(last.op = "get_nearest_neighbors" /\ last.outcome = "error")

\* the doctest bin list of compute_N50, lines 215-216
DocN50 ==
    << [name |-> "c-0", start |-> 0, end |-> 10, coverage |-> <<1, 1>>],
       [name |-> "c-0", start |-> 10, end |-> 20, coverage |-> <<1, 1>>],
       [name |-> "c-2", start |-> 0, end |-> 30, coverage |-> <<1, 1>>],
       [name |-> "c-3", start |-> 0, end |-> 10, coverage |-> <<1, 1>>],
       [name |-> "c-2", start |-> 20, end |-> 30, coverage |-> <<1, 1>>],
       [name |-> "c-3", start |-> 0, end |-> 10, coverage |-> <<1, 1>>] >>

\* the path lengths greater than m
LongLengths(lens, m) == {lens[i] : i \in {j \in 1..Len(lens) : lens[j] > m}}

\* the sum of the path lengths greater than m and at most w: the cumulative
\* sum of the ascending list at the last entry of value w
SumUpTo(lens, m, w) ==
    SumSeq([i \in 1..Len(lens) |-> IF m < lens[i] /\ lens[i] <= w THEN lens[i] ELSE 0])

\* C4: with a path longer than min_length, compute_N50(min_length) returns the
\* entry of the ascending list of path lengths > min_length at the first index
\* whose cumulative sum is at least half the total of that list: the least
\* length w of the list with 2 * (sum of the entries <= w) >= total. For the
\* path lengths 20, 30, 10, 10, 10 and min_length = 2 it returns 20.
C4_N50 ==
    /\ get_paths_length(_init_path_graph(EmptyGraph, DocN50)) = <<20, 30, 10, 10, 10>>
    /\ compute_N50(_init_path_graph(EmptyGraph, DocN50), 2) = [kind |-> "value", value |-> 20]
    /\ LET lens == get_paths_length(contig_G)
           m == last.arg
       IN  (last.op = "compute_N50" /\ LongLengths(lens, m) # {}) =>
              /\ last.outcome.kind = "value"
              /\ last.outcome.value \in LongLengths(lens, m)
              /\ 2 * SumUpTo(lens, m, last.outcome.value) >= SumUpTo(lens, m, SumSeq(lens))
              /\ \A w \in LongLengths(lens, m) :
                    w < last.outcome.value =>
                        2 * SumUpTo(lens, m, w) < SumUpTo(lens, m, SumSeq(lens))

\* C4 witness: compute_N50 has left a short path out and has returned a
\* length that is not the least of the list
C4_Witness ==
    LET lens == get_paths_length(contig_G)
    IN  /\ last.op = "compute_N50"
        /\ last.outcome.kind = "value"
        /\ \E i \in 1..Len(lens) : lens[i] <= last.arg
        /\ \E w \in LongLengths(lens, last.arg) : w < last.outcome.value

\* C5 as stated: the flanks returned by get_flanks cover the path exactly, no
\* index twice and no index of the path left out.
C5_FlanksCoverPath ==
    last.op = "get_flanks" =>
        /\ NoRepeat(Flatten(last.aux))
        /\ Range(Flatten(last.aux)) = Range(last.arg.path)

\* C5: the flanks returned by get_flanks hold no index twice and hold only
\* indices of the path; with a maximum depth of at least 1 they are not empty
\* and hold the first and the last index of the path, while the indices in
\* between may be left out; with a maximum depth of 0 nothing is returned.
C5_FlanksDisjointInPath ==
    last.op = "get_flanks" =>
        LET path == last.arg.path
            all == Flatten(last.aux)
        IN  /\ NoRepeat(all)
            /\ Range(all) \subseteq Range(path)
            /\ \A k \in 1..Len(last.aux) : last.aux[k] # <<>>
            /\ last.arg.recursive_repetitions >= 1 =>
                  path[1] \in Range(all) /\ path[Len(path)] \in Range(all)
            /\ last.arg.recursive_repetitions = 0 => last.aux = <<>>

\* C5 witness: get_flanks has returned more than two flanks of a path and has
\* left out one of its indices
C5_Witness ==
    /\ last.op = "get_flanks"
    /\ Len(last.aux) > 2
    /\ Range(Flatten(last.aux)) # Range(last.arg.path)

\* the shortest prefix of a path whose bins sum to at least 0.75 * target, the
\* whole path when no prefix does
ShortestPrefix(G, path, target) ==
    LET ks == {k \in 1..Len(path) : 4 * PathLength(G, SubSeq(path, 1, k)) >= 3 * target}
    IN  IF ks = {} THEN path
        ELSE SubSeq(path, 1, CHOOSE k \in ks : \A j \in ks : k <= j)

\* C11 as stated: for a path of at least 2 bins and of total length at least
\* 1.5 * target, the left flank before overlap removal is the shortest prefix
\* whose actual bin lengths sum to at least 0.75 * target, and the right flank
\* the shortest such suffix.
C11_FlanksByActualLength ==
    LET path == last.arg.path
        target == last.arg.flank_length
        x == path[Len(path)]
    IN  (/\ last.op = "get_flanks"
         /\ last.arg.recursive_repetitions >= 1
         /\ Len(path) >= 2
         /\ 2 * PathLength(contig_G, path) >= 3 * target) =>
            /\ _get_path_flank(contig_G, path, x, target)
                  = ShortestPrefix(contig_G, path, target)
            /\ Reverse(_get_path_flank(contig_G, Reverse(path), x, target))
                  = Reverse(ShortestPrefix(contig_G, Reverse(path), target))

\* the non-empty contiguous pieces path[a:b]
Pieces(path) ==
    {Slice(path, a, b) : a \in 0..Len(path), b \in 0..Len(path)} \ {<<>>}

\* total length below 1.5 * target
SmallPath(G, path, target) == 2 * PathLength(G, path) < 3 * target

\* what a path keeps between its two flanks, line 463
Interior(G, path, target) ==
    LET lr == LeftRight(G, path, target)
    IN  SelectSeq(path, LAMBDA y : y \notin Range(lr[1]) \cup Range(lr[2]))

Undirected(G) == {{e[1], e[2]} : e \in G.edge}

\* a hub of the running pass: an eligible node whose degree in the auxiliary
\* graph does not match its eligibility
Hub(n) ==
    \/ n \in nn.flanks /\ Cardinality(AuxNeighbors(nn.G, n)) # 1
    \/ n \in nn.singletons /\ Cardinality(AuxNeighbors(nn.G, n)) # 2

\* C13 as stated: no step of get_nearest_neighbors adds an edge incident to a
\* hub, so after the pass no such edge has been added.
C13_NoEdgeAtHub ==
    [][pc = "nn" =>
          \A e \in Undirected(contig_G') \ Undirected(contig_G) :
              \A n \in e : ~Hub(n)]_vars

\* C13: the step of a hub adds no edge; every edge a step of the pass adds
\* starts at the node of that step, which is a path end with one neighbour in
\* the auxiliary graph or a singleton with two. The far end may be a hub.
C13_HubStepAddsNothing ==
    [][pc = "nn" =>
          /\ last'.aux.kind = "hub" => contig_G' = contig_G
          /\ Hub(last'.aux.node) => contig_G' = contig_G
          /\ \A e \in Undirected(contig_G') \ Undirected(contig_G) :
                /\ last'.aux.node \in e
                /\ ~Hub(last'.aux.node)
                /\ e \in {{a[1], a[2]} : a \in last'.aux.added}]_vars

\* C13 witness: the step of a path end has just added the edge to its one
\* neighbour, a singleton that is a hub, after the hub's own step added nothing
C13_Witness ==
    /\ pc = "nn"
    /\ last.aux.kind = "flank"
    /\ \E e \in last.aux.added :
          /\ Hub(e[2]) /\ e[2] \in nn.singletons /\ e[2] \notin nn.todo
          /\ {e[1], e[2]} \in Undirected(contig_G)

\* every bin has end > start, and the bins of one label come in increasing
\* coordinate order
WellFormed(intervals) ==
    /\ \A k \in 1..Len(intervals) : intervals[k].start < intervals[k].end
    /\ \A j, k \in 1..Len(intervals) :
          (j < k /\ intervals[j].name = intervals[k].name) =>
              intervals[j].end <= intervals[k].start

\* C14 as stated: with well-formed bins merge_to_size never fails on a reduce
\* group whose first member's start is not below its last member's end.
C14_NeverMalformed ==
    (WellFormed(cut_intervals) /\ last.op = "merge_to_size") => last.outcome # "malformed"

\* the chain edges i -> i+1 between neighbouring bins of the same label
SameLabelEdges(intervals) ==
    {<<i - 1, i>> : i \in {j \in 1..(Len(intervals) - 1) : SameLabel(intervals, j)}}

\* C15: right after construction, after a remove_bins_by_size that retains a
\* bin and after a completed merge_to_size, the edges of the path graph are
\* exactly the pairs (i, i+1) of neighbouring bins with the same label: no
\* edge joins two labels, whatever get_nearest_neighbors added before, and
\* neighbouring bins of one label are in one path.
C15_RebuildEdges ==
    /\ last.op = "__init__" => contig_G.edge = SameLabelEdges(cut_intervals)
    /\ [][(last'.op \in {"remove_bins_by_size", "merge_to_size"} /\ last'.outcome = "ok") =>
             /\ contig_G'.edge = SameLabelEdges(cut_intervals')
             /\ \A e \in contig_G'.edge :
                   cut_intervals'[e[1] + 1].name = cut_intervals'[e[2] + 1].name
             /\ \A i \in 1..(Len(cut_intervals') - 1) :
                   SameLabel(cut_intervals', i) => i \in Range(PathOf(contig_G', i - 1))]_vars

\* C15 witness: remove_bins_by_size(1) has kept a bin of length 1 that was
\* never merged and now has no edge: before the call it was in a path of two
\* bins or more, by an edge of get_nearest_neighbors that the rebuild dropped
C15_Witness ==
    /\ Completed("remove_bins_by_size")
    /\ last.arg = 1
    /\ \A k \in 1..Len(cut_intervals) :
          /\ cut_intervals[k].end - cut_intervals[k].start = 1
          /\ cut_intervals[k].coverage = <<1, 1>>
    /\ \E n \in NodesOf(contig_G) : degree(contig_G, n) = 0
    /\ contig_G.edge # {}

\* the place of bin v in a path
Pos(path, v) == CHOOSE i \in 1..Len(path) : path[i] = v

\* C16: for a non-empty path, a positive target and a maximum depth of at
\* least 1, get_flanks returns a non-empty list of non-empty flanks, each a
\* contiguous run of the path in the path's order, and the flanks follow one
\* another from left to right without sharing a bin: their concatenation is a
\* subsequence of the path and there are no more flanks than bins.
C16_FlanksAreOrderedRuns ==
    (last.op = "get_flanks" /\ last.arg.recursive_repetitions >= 1) =>
        LET path == last.arg.path
            flanks == last.aux
            all == Flatten(flanks)
        IN  /\ flanks # <<>>
            /\ \A k \in 1..Len(flanks) : flanks[k] \in Pieces(path)
            /\ \A i \in 1..Len(all) : all[i] \in Range(path)
            /\ \A i, j \in 1..Len(all) : i < j => Pos(path, all[i]) < Pos(path, all[j])
            /\ Len(flanks) <= Len(path)

\* C16 witness: get_flanks has returned a left flank, a right flank and,
\* between them, a flank of several bins from the recursion into the interior
C16_Witness ==
    /\ last.op = "get_flanks"
    /\ last.arg.recursive_repetitions >= 2
    /\ Len(last.aux) >= 3
    /\ \E k \in 2..(Len(last.aux) - 1) : Len(last.aux[k]) >= 2

====
